---- MODULE Spec2Model ----
(***************************************************************************)
(* Model of the RwLock-based chat server of rust-tcp-chat                  *)
(* (src/src/client_handler.rs).  One handler thread runs handle_client per *)
(* accepted connection; the handlers share the clients map, the usernames  *)
(* map and the chat history, each behind its own RwLock.  Spec runs two    *)
(* connections with every kind of line, SpecFanout three connections that  *)
(* send Message lines.  SpecMutex is the older Mutex-based server of       *)
(* src/src/server.rs over the same maps and history.                       *)
(***************************************************************************)
EXTENDS Integers, Sequences, FiniteSets, TLC

\* ---------------------------------------------------------------- bounds
NumSessions == 3      \* connection identities
MaxLive == 2          \* connections accepted during a run of Spec
MaxCloses == 1        \* connections whose peer closes during a run
MaxInputs == 2        \* lines the message loops read in total during a run of Spec
MaxHistory == 4       \* envelopes the history may hold
MaxLines == 3         \* lines one client writes during a run of SpecFraming

\* ------------------------------------------------------- program constants
MaxNameLen == 20      \* longest display name the client lets a user choose
BufferLen == 1024     \* bytes one read of the server takes at most

Ids == 1..NumSessions                 \* peer addresses (connection identities)
LongName == "aaaaaaaaaaaaaaaaaaaaa"   \* a 21 character name
Names == {"", "alice", "bob", LongName}

\* the display names connection s may declare in its first line
NamesOf(s) ==
  IF s = 1 THEN {"", "alice"} ELSE IF s = 2 THEN {"alice", LongName} ELSE {"bob"}
Contents == {"hello"}

\* Option<String>
None == <<>>
Some(n) == <<n>>

\* ChatMessageType: Message, Join, Leave, Command(List), Command(Quit)
Kinds == {"message", "join", "leave", "list", "quit"}

\* struct ChatMessage
ChatMessage(t, u, c) == [message_type |-> t, username |-> u, content |-> c]

\* every envelope a client can put on the wire
ChatMessages ==
  [message_type : Kinds, username : {None} \cup {Some(n) : n \in Names},
   content : Contents]

\* format!("{} has joined the chat", username)
JoinContent(n) == n \o " has joined the chat"

\* a leave notice with the join notice's text
LeftContent_Joined(n) == n \o " has joined the chat"

\* format!("{} has left the chat", username)
LeftContent(n) == n \o " has left the chat"

\* users.join(", ")
RECURSIVE JoinNames(_)
JoinNames(names) ==
  IF names = <<>> THEN ""
  ELSE IF Len(names) = 1 THEN names[1]
  ELSE names[1] \o ", " \o JoinNames(Tail(names))

\* a reply body that never says nobody is online
ListContent_NeverEmpty(names) == "Online users: " \o JoinNames(names)

\* the content of a /list reply
ListContent(names) ==
  IF names = <<>> THEN "No users online."
  ELSE "Online users: " \o JoinNames(names)

\* the orders in which a HashMap may yield the keys S
Orderings(S) ==
  {f \in [1..Cardinality(S) -> S] : \A i, j \in 1..Cardinality(S) : f[i] = f[j] => i = j}

\* std::sync::RwLock: one writer or any number of readers
FreeLock == [writer |-> 0, readers |-> {}]
CanRead(l) == l.writer = 0

\* a write lock that does not wait for the readers
CanWrite_OverReaders(l) == l.writer = 0

CanWrite(l) == l.writer = 0 /\ l.readers = {}

VARIABLES
  pc,              \* where each handler thread stands
  result,          \* what handle_client returned: "running", "ok", "err"
  conn,            \* the peer's end of each connection: "open", "closed"
  ninputs,         \* lines read so far by the message loops
  clients,         \* keys of the clients map (each maps to its own stream)
  usernames,       \* the usernames map
  chat_history,    \* the history vector
  clients_lock, usernames_lock, history_lock,
  username,        \* handle_client's local: the name read at the handshake
  message,         \* broadcast_message's argument
  ret,             \* the call site broadcast_message returns to
  msg_type,        \* handle_client_disconnect's message_type argument
  todo,            \* recipients the fan-out loop has yet to visit
  failed_clients,  \* broadcast_message's local
  hist_idx,        \* send_chat_history's loop position
  users,           \* send_user_list's local: ids in HashMap iteration order
  inbox,           \* history variable: what was written to each connection
  appended_by,     \* history variable: who appended each history entry, and where
  pruned,          \* history variable: ids a failed broadcast write unregistered
  left_sent,       \* history variable: ids whose disconnect fan-out finished
  declared,        \* history variable: the username field of the line being relayed
  scenario,        \* what the peers do during the run; never changes
  poisoned,        \* server.rs: the mutexes a panicking holder poisoned
  panicked,        \* server.rs: the threads that panicked (Main is the accept loop)
  sent,            \* byte level: the lines one client wrote, in order
  wire,            \* byte level: the bytes written and not yet read
  dispatched,      \* byte level: the envelopes the server parsed and acted on
  peer,            \* byte level: the client's end, "open" or "closed"
  reader           \* byte level: the handler, "get_username", "loop" or "done"

vars == <<pc, result, conn, ninputs, clients, usernames, chat_history,
          clients_lock, usernames_lock, history_lock, username, message, ret,
          msg_type, todo, failed_clients, hist_idx, users, inbox, appended_by,
          pruned, left_sent, declared, scenario, poisoned, panicked,
          sent, wire, dispatched, peer, reader>>

\* one connection seen byte by byte; the envelope-level actions never touch it
framing == <<sent, wire, dispatched, peer, reader>>

\* the envelope-level state, which the byte-level actions never touch
envelope_level ==
  <<pc, result, conn, ninputs, clients, usernames, chat_history,
    clients_lock, usernames_lock, history_lock, username, message, ret,
    msg_type, todo, failed_clients, hist_idx, users, inbox, appended_by,
    pruned, left_sent, declared, scenario, poisoned, panicked>>

\* the state of the Mutex-based server that client_handler.rs never touches
mx == <<poisoned, panicked>>

NoMessage == ChatMessage("message", None, "")
NoUsers == [ids |-> << >>, names |-> << >>]

\* the peers of Spec: MaxLive connections, any of which may close or send
Pair ==
  [sessions |-> 1..MaxLive, closers |-> 1..MaxLive, senders |-> 1..MaxLive,
   closes |-> MaxCloses, inputs |-> MaxInputs, names |-> Names]

\* every thread before its first step, the shared state as main builds it
Start(sc) ==
  /\ scenario = sc
  /\ pc = [s \in Ids |-> "register"]
  /\ result = [s \in Ids |-> "running"]
  /\ conn = [s \in Ids |-> "open"]
  /\ ninputs = 0
  /\ clients = {}
  /\ usernames = << >>
  /\ chat_history = << >>
  /\ clients_lock = FreeLock
  /\ usernames_lock = FreeLock
  /\ history_lock = FreeLock
  /\ username = [s \in Ids |-> None]
  /\ message = [s \in Ids |-> NoMessage]
  /\ ret = [s \in Ids |-> "none"]
  /\ msg_type = [s \in Ids |-> "none"]
  /\ todo = [s \in Ids |-> {}]
  /\ failed_clients = [s \in Ids |-> {}]
  /\ hist_idx = [s \in Ids |-> 0]
  /\ users = [s \in Ids |-> NoUsers]
  /\ inbox = [s \in Ids |-> << >>]
  /\ appended_by = << >>
  /\ pruned = {}
  /\ left_sent = {}
  /\ declared = [s \in Ids |-> None]
  /\ poisoned = {}
  /\ panicked = {}
  /\ sent = << >>
  /\ wire = << >>
  /\ dispatched = << >>
  /\ peer = "open"
  /\ reader = "get_username"

Init == Start(Pair)

\* HashMap::insert / HashMap::remove on the usernames map
MapInsert(m, k, v) == [a \in DOMAIN m \cup {k} |-> IF a = k THEN v ELSE m[a]]
MapRemove(m, k) == [a \in DOMAIN m \ {k} |-> m[a]]

\* a record of one write to a connection
Written(via, env, idx, by) == [via |-> via, env |-> env, idx |-> idx, by |-> by]

\* handle_client returns
Return(s, r) ==
  /\ pc' = [pc EXCEPT ![s] = "done"]
  /\ result' = [result EXCEPT ![s] = r]

\* the position of the envelope thread s appended last
CurIdx(s) ==
  LET mine == {i \in 1..Len(appended_by) : appended_by[i].id = s}
  IN IF mine = {} THEN 0 ELSE CHOOSE i \in mine : \A j \in mine : j <= i

\* a push that puts the envelope in front
Push_Front(h, m) == <<m>> \o h

\* history_lock.push(message.clone())
Push(h, m) == Append(h, m)

\* a relay that trusts the username field the client sent
broadcast_msg_AsSent(name, chat_msg) ==
  ChatMessage("message", chat_msg.username, chat_msg.content)

\* handle_parsed_message's broadcast_msg: the line rebuilt under the session's name
broadcast_msg(name, chat_msg) ==
  ChatMessage("message", Some(name), chat_msg.content)

\* a fan-out that skips nobody
Recipients_All(cl, sender) == cl

\* broadcast_message's fan-out filter: every registered writer but the sender
Recipients(cl, sender) == {addr \in cl : addr # sender}

\* where broadcast_message's caller continues
AfterBroadcast(s) == IF ret[s] = "disconnect" THEN "dc_ack" ELSE "read"

\* broadcast_message returns: only handle_client_disconnect keeps the envelope
BroadcastReturns(s) ==
  /\ pc' = [pc EXCEPT ![s] = AfterBroadcast(s)]
  /\ message' = [message EXCEPT ![s] = IF ret[s] = "disconnect" THEN @ ELSE NoMessage]
  /\ ret' = [ret EXCEPT ![s] = IF ret[s] = "disconnect" THEN @ ELSE "none"]

\* --------------------------------------------------------------- the peer
\* the client closes its end of the connection
Close(s) ==
  /\ s \in scenario.closers
  /\ conn[s] = "open"
  /\ Cardinality({a \in Ids : conn[a] = "closed"}) < scenario.closes
  /\ pc[s] # "done" \/ s \in clients \/ \E t \in Ids : s \in todo[t]
  /\ conn' = [conn EXCEPT ![s] = "closed"]
  /\ UNCHANGED <<pc, result, ninputs, clients, usernames, chat_history,
                 clients_lock, usernames_lock, history_lock, username, message,
                 ret, msg_type, todo, failed_clients, hist_idx, users, inbox,
                 appended_by, pruned, left_sent,
                 scenario, declared, mx, framing>>

\* ----------------------------------------------------------- handle_client
\* stream.peer_addr()? or stream.try_clone()? fails
RegisterFails(s) ==
  /\ s \in scenario.sessions
  /\ pc[s] = "register"
  /\ conn[s] = "closed"
  /\ Return(s, "err")
  /\ UNCHANGED <<conn, ninputs, clients, usernames, chat_history, clients_lock,
                 usernames_lock, history_lock, username, message, ret, msg_type,
                 todo, failed_clients, hist_idx, users, inbox, appended_by,
                 pruned, left_sent,
                 scenario, declared, mx, framing>>

\* register_client: insert the writer under the clients write lock
RegisterClient(s) ==
  /\ s \in scenario.sessions
  /\ pc[s] = "register"
  /\ CanWrite(clients_lock)
  /\ clients' = clients \cup {s}
  /\ pc' = [pc EXCEPT ![s] = "get_username"]
  /\ UNCHANGED <<result, conn, ninputs, usernames, chat_history, clients_lock,
                 usernames_lock, history_lock, username, message, ret, msg_type,
                 todo, failed_clients, hist_idx, users, inbox, appended_by,
                 pruned, left_sent,
                 scenario, declared, mx, framing>>

\* get_client_username: the first read fails or returns no bytes
GetUsernameDisconnected(s) ==
  /\ pc[s] = "get_username"
  /\ conn[s] = "closed"
  /\ Return(s, "err")
  /\ UNCHANGED <<conn, ninputs, clients, usernames, chat_history, clients_lock,
                 usernames_lock, history_lock, username, message, ret, msg_type,
                 todo, failed_clients, hist_idx, users, inbox, appended_by,
                 pruned, left_sent,
                 scenario, declared, mx, framing>>

\* get_client_username: the first line is no ChatMessage (InvalidMessage) or
\* carries username None (MissingUsername)
GetUsernameInvalid(s) ==
  /\ pc[s] = "get_username"
  /\ \E line \in {"unparseable", "username None"} : Return(s, "err")
  /\ UNCHANGED <<conn, ninputs, clients, usernames, chat_history, clients_lock,
                 usernames_lock, history_lock, username, message, ret, msg_type,
                 todo, failed_clients, hist_idx, users, inbox, appended_by,
                 pruned, left_sent,
                 scenario, declared, mx, framing>>

\* a handshake that records the name in the usernames map as soon as it is read
GetClientUsername_SetsName(s) ==
  /\ pc[s] = "get_username"
  /\ \E chat_message \in ChatMessages :
       /\ chat_message.username # None
       /\ chat_message.username[1] \in NamesOf(s) \cap scenario.names
       /\ username' = [username EXCEPT ![s] = chat_message.username]
       /\ usernames' = MapInsert(usernames, s, chat_message.username[1])
  /\ pc' = [pc EXCEPT ![s] = "send_history"]
  /\ UNCHANGED <<result, conn, ninputs, clients, chat_history,
                 clients_lock, usernames_lock, history_lock, message, ret,
                 msg_type, todo, failed_clients, hist_idx, users, inbox,
                 appended_by, pruned, left_sent,
                 scenario, declared, mx, framing>>

\* get_client_username: the first line parses and carries Some(name)
GetClientUsername(s) ==
  /\ pc[s] = "get_username"
  /\ \E chat_message \in ChatMessages :
       /\ chat_message.username # None
       /\ chat_message.username[1] \in NamesOf(s) \cap scenario.names
       /\ username' = [username EXCEPT ![s] = chat_message.username]
  /\ pc' = [pc EXCEPT ![s] = "send_history"]
  /\ UNCHANGED <<result, conn, ninputs, clients, usernames, chat_history,
                 clients_lock, usernames_lock, history_lock, message, ret,
                 msg_type, todo, failed_clients, hist_idx, users, inbox,
                 appended_by, pruned, left_sent,
                 scenario, declared, mx, framing>>

\* a replay that also takes the clients read lock
HistoryReadLock_WithClients(s) ==
  /\ pc[s] = "send_history"
  /\ CanRead(history_lock)
  /\ history_lock' = [history_lock EXCEPT !.readers = @ \cup {s}]
  /\ clients_lock' = [clients_lock EXCEPT !.readers = @ \cup {s}]
  /\ hist_idx' = [hist_idx EXCEPT ![s] = 1]
  /\ pc' = [pc EXCEPT ![s] = "replay"]
  /\ UNCHANGED <<result, conn, ninputs, clients, usernames, chat_history,
                 usernames_lock, username, message, ret, msg_type,
                 todo, failed_clients, users, inbox, appended_by, pruned,
                 left_sent,
                 scenario, declared, mx, framing>>

\* send_chat_history: chat_history.read()
HistoryReadLock(s) ==
  /\ pc[s] = "send_history"
  /\ CanRead(history_lock)
  /\ history_lock' = [history_lock EXCEPT !.readers = @ \cup {s}]
  /\ hist_idx' = [hist_idx EXCEPT ![s] = 1]
  /\ pc' = [pc EXCEPT ![s] = "replay"]
  /\ UNCHANGED <<result, conn, ninputs, clients, usernames, chat_history,
                 clients_lock, usernames_lock, username, message, ret, msg_type,
                 todo, failed_clients, users, inbox, appended_by, pruned,
                 left_sent,
                 scenario, declared, mx, framing>>

\* send_chat_history: one send_message_to_client of the loop succeeds
ReplayWrite(s) ==
  /\ pc[s] = "replay"
  /\ hist_idx[s] <= Len(chat_history)
  /\ conn[s] = "open"
  /\ inbox' = [inbox EXCEPT ![s] =
                 Append(@, Written("replay", chat_history[hist_idx[s]], hist_idx[s], s))]
  /\ hist_idx' = [hist_idx EXCEPT ![s] = @ + 1]
  /\ UNCHANGED <<pc, result, conn, ninputs, clients, usernames, chat_history,
                 clients_lock, usernames_lock, history_lock, username, message,
                 ret, msg_type, todo, failed_clients, users, appended_by, pruned,
                 left_sent,
                 scenario, declared, mx, framing>>

\* send_chat_history: a write fails; `?` drops the guard and handle_client returns
ReplayFails(s) ==
  /\ pc[s] = "replay"
  /\ hist_idx[s] <= Len(chat_history)
  /\ conn[s] = "closed"
  /\ history_lock' = [history_lock EXCEPT !.readers = @ \ {s}]
  /\ hist_idx' = [hist_idx EXCEPT ![s] = 0]
  /\ Return(s, "err")
  /\ UNCHANGED <<conn, ninputs, clients, usernames, chat_history, clients_lock,
                 usernames_lock, username, message, ret, msg_type, todo,
                 failed_clients, users, inbox, appended_by, pruned, left_sent,
                 scenario, declared, mx, framing>>

\* send_chat_history: the loop ends and the read guard is dropped
ReplayDone(s) ==
  /\ pc[s] = "replay"
  /\ hist_idx[s] > Len(chat_history)
  /\ history_lock' = [history_lock EXCEPT !.readers = @ \ {s}]
  /\ hist_idx' = [hist_idx EXCEPT ![s] = 0]
  /\ pc' = [pc EXCEPT ![s] = "set_name"]
  /\ UNCHANGED <<result, conn, ninputs, clients, usernames, chat_history,
                 clients_lock, usernames_lock, username, message, ret, msg_type,
                 todo, failed_clients, users, inbox, appended_by, pruned,
                 left_sent,
                 scenario, declared, mx, framing>>

\* a join that keeps the usernames write guard for the whole broadcast
BroadcastJoinMessage_HoldsGuard(s) ==
  /\ pc[s] = "set_name"
  /\ CanWrite(usernames_lock)
  /\ usernames_lock' = [usernames_lock EXCEPT !.writer = s]
  /\ usernames' = MapInsert(usernames, s, username[s][1])
  /\ message' = [message EXCEPT ![s] =
                   ChatMessage("join", Some(username[s][1]), JoinContent(username[s][1]))]
  /\ ret' = [ret EXCEPT ![s] = "join"]
  /\ pc' = [pc EXCEPT ![s] = "bm_append"]
  /\ UNCHANGED <<result, conn, ninputs, clients, chat_history, clients_lock,
                 history_lock, username, msg_type, todo,
                 failed_clients, hist_idx, users, inbox, appended_by, pruned,
                 left_sent,
                 scenario, declared, mx, framing>>

\* broadcast_join_message: insert the name, then call broadcast_system_message
BroadcastJoinMessage(s) ==
  /\ pc[s] = "set_name"
  /\ CanWrite(usernames_lock)
  /\ usernames' = MapInsert(usernames, s, username[s][1])
  /\ message' = [message EXCEPT ![s] =
                   ChatMessage("join", Some(username[s][1]), JoinContent(username[s][1]))]
  /\ ret' = [ret EXCEPT ![s] = "join"]
  /\ pc' = [pc EXCEPT ![s] = "bm_append"]
  /\ UNCHANGED <<result, conn, ninputs, clients, chat_history, clients_lock,
                 usernames_lock, history_lock, username, msg_type, todo,
                 failed_clients, hist_idx, users, inbox, appended_by, pruned,
                 left_sent,
                 scenario, declared, mx, framing>>

\* --------------------------------------------------------- broadcast_message
\* a broadcast that takes the history lock and loses the envelope
BroadcastAppend_NoPush(s) ==
  /\ pc[s] = "bm_append"
  /\ CanWrite(history_lock)
  /\ Len(chat_history) < MaxHistory
  /\ chat_history' = chat_history
  /\ appended_by' = Append(appended_by, [id |-> s, site |-> ret[s]])
  /\ pc' = [pc EXCEPT ![s] = "bm_lock"]
  /\ UNCHANGED <<result, conn, ninputs, clients, usernames, clients_lock,
                 usernames_lock, history_lock, username, message, ret, msg_type,
                 todo, failed_clients, hist_idx, users, inbox, pruned, left_sent,
                 scenario, declared, mx, framing>>

\* chat_history.write().unwrap(); history_lock.push(message.clone())
BroadcastAppend(s) ==
  /\ pc[s] = "bm_append"
  /\ CanWrite(history_lock)
  /\ Len(chat_history) < MaxHistory
  /\ chat_history' = Push(chat_history, message[s])
  /\ appended_by' = Append(appended_by, [id |-> s, site |-> ret[s]])
  /\ pc' = [pc EXCEPT ![s] = "bm_lock"]
  /\ UNCHANGED <<result, conn, ninputs, clients, usernames, clients_lock,
                 usernames_lock, history_lock, username, message, ret, msg_type,
                 todo, failed_clients, hist_idx, users, inbox, pruned, left_sent,
                 scenario, declared, mx, framing>>

\* clients.read().unwrap(): the fan-out loop starts over the map as it stands
BroadcastReadLock(s) ==
  /\ pc[s] = "bm_lock"
  /\ CanRead(clients_lock)
  /\ clients_lock' = [clients_lock EXCEPT !.readers = @ \cup {s}]
  /\ todo' = [todo EXCEPT ![s] = Recipients(clients, s)]
  /\ failed_clients' = [failed_clients EXCEPT ![s] = {}]
  /\ declared' = [declared EXCEPT ![s] = None]
  /\ pc' = [pc EXCEPT ![s] = "bm_write"]
  /\ UNCHANGED <<result, conn, ninputs, clients, usernames, chat_history,
                 usernames_lock, history_lock, username, message, ret, msg_type,
                 hist_idx, users, inbox, appended_by, pruned, left_sent,
                 scenario, mx, framing>>

\* one iteration of the loop: write_all to a recipient succeeds
BroadcastWrite(s) ==
  /\ pc[s] = "bm_write"
  /\ \E addr \in todo[s] :
       /\ conn[addr] = "open"
       /\ inbox' = [inbox EXCEPT ![addr] =
                      Append(@, Written("fanout", message[s], CurIdx(s), s))]
       /\ todo' = [todo EXCEPT ![s] = @ \ {addr}]
  /\ UNCHANGED <<pc, result, conn, ninputs, clients, usernames, chat_history,
                 clients_lock, usernames_lock, history_lock, username, message,
                 ret, msg_type, failed_clients, hist_idx, users, appended_by,
                 pruned, left_sent,
                 scenario, declared, mx, framing>>

\* a loop that the first failed write ends
BroadcastWriteFails_Abort(s) ==
  /\ pc[s] = "bm_write"
  /\ \E addr \in todo[s] :
       /\ conn[addr] = "closed"
       /\ failed_clients' = [failed_clients EXCEPT ![s] = @ \cup {addr}]
       /\ todo' = [todo EXCEPT ![s] = {}]
  /\ UNCHANGED <<pc, result, conn, ninputs, clients, usernames, chat_history,
                 clients_lock, usernames_lock, history_lock, username, message,
                 ret, msg_type, hist_idx, users, inbox, appended_by, pruned,
                 left_sent,
                 scenario, declared, mx, framing>>

\* one iteration of the loop: write_all fails, failed_clients.push(addr)
\* (try_clone failing for want of descriptors ends in the same push; only the
\* failure of a closed connection is modelled)
BroadcastWriteFails(s) ==
  /\ pc[s] = "bm_write"
  /\ \E addr \in todo[s] :
       /\ conn[addr] = "closed"
       /\ failed_clients' = [failed_clients EXCEPT ![s] = @ \cup {addr}]
       /\ todo' = [todo EXCEPT ![s] = @ \ {addr}]
  /\ UNCHANGED <<pc, result, conn, ninputs, clients, usernames, chat_history,
                 clients_lock, usernames_lock, history_lock, username, message,
                 ret, msg_type, hist_idx, users, inbox, appended_by, pruned,
                 left_sent,
                 scenario, declared, mx, framing>>

\* the loop ends and the read guard is dropped
BroadcastLoopEnd(s) ==
  /\ pc[s] = "bm_write"
  /\ todo[s] = {}
  /\ clients_lock' = [clients_lock EXCEPT !.readers = @ \ {s}]
  /\ IF failed_clients[s] # {}
       THEN /\ pc' = [pc EXCEPT ![s] = "bm_prune"]
            /\ UNCHANGED <<message, ret>>
       ELSE BroadcastReturns(s)
  /\ left_sent' = IF ret[s] = "disconnect" THEN left_sent \cup {s} ELSE left_sent
  /\ UNCHANGED <<result, conn, ninputs, clients, usernames, chat_history,
                 usernames_lock, history_lock, username, msg_type, todo,
                 failed_clients, hist_idx, users, inbox, appended_by, pruned,
                 scenario, declared, mx, framing>>

\* if !failed_clients.is_empty(): remove them under the clients write lock
BroadcastPrune(s) ==
  /\ pc[s] = "bm_prune"
  /\ CanWrite(clients_lock)
  /\ clients' = clients \ failed_clients[s]
  /\ pruned' = pruned \cup failed_clients[s]
  /\ failed_clients' = [failed_clients EXCEPT ![s] = {}]
  /\ BroadcastReturns(s)
  /\ UNCHANGED <<result, conn, ninputs, usernames, chat_history, clients_lock,
                 usernames_lock, history_lock, username, msg_type, todo,
                 hist_idx, users, inbox, appended_by, left_sent,
                 scenario, declared, mx, framing>>

\* ---------------------------------------------------- handle_client_messages
\* stream.read gives Ok(0) or Err: break
ReadClosed(s) ==
  /\ pc[s] = "read"
  /\ conn[s] = "closed"
  /\ pc' = [pc EXCEPT ![s] = "cleanup"]
  /\ UNCHANGED <<result, conn, ninputs, clients, usernames, chat_history,
                 clients_lock, usernames_lock, history_lock, username, message,
                 ret, msg_type, todo, failed_clients, hist_idx, users, inbox,
                 appended_by, pruned, left_sent,
                 scenario, declared, mx, framing>>

\* a loop that an unparseable line ends
ReadUnparseable_Break(s) ==
  /\ pc[s] = "read"
  /\ s \in scenario.senders
  /\ ninputs < scenario.inputs
  /\ \E raw_msg \in {"", "not json"} : ninputs' = ninputs + 1
  /\ pc' = [pc EXCEPT ![s] = "cleanup"]
  /\ UNCHANGED <<result, conn, clients, usernames, chat_history,
                 clients_lock, usernames_lock, history_lock, username, message,
                 ret, msg_type, todo, failed_clients, hist_idx, users, inbox,
                 appended_by, pruned, left_sent,
                 scenario, declared, mx, framing>>

\* the bytes read, trimmed, are empty or no ChatMessage: eprintln and loop
ReadUnparseable(s) ==
  /\ pc[s] = "read"
  /\ s \in scenario.senders
  /\ ninputs < scenario.inputs
  /\ \E raw_msg \in {"", "not json"} : ninputs' = ninputs + 1
  /\ UNCHANGED <<pc, result, conn, clients, usernames, chat_history,
                 clients_lock, usernames_lock, history_lock, username, message,
                 ret, msg_type, todo, failed_clients, hist_idx, users, inbox,
                 appended_by, pruned, left_sent,
                 scenario, declared, mx, framing>>

\* handle_parsed_message, arm ChatMessageType::Message
HandleMessage(s) ==
  /\ pc[s] = "read"
  /\ s \in scenario.senders
  /\ ninputs < scenario.inputs
  /\ \E chat_msg \in ChatMessages :
       /\ chat_msg.message_type = "message"
       /\ message' = [message EXCEPT ![s] = broadcast_msg(username[s][1], chat_msg)]
       /\ declared' = [declared EXCEPT ![s] = chat_msg.username]
  /\ ninputs' = ninputs + 1
  /\ ret' = [ret EXCEPT ![s] = "message"]
  /\ pc' = [pc EXCEPT ![s] = "bm_append"]
  /\ UNCHANGED <<result, conn, clients, usernames, chat_history, clients_lock,
                 usernames_lock, history_lock, username, msg_type, todo,
                 failed_clients, hist_idx, users, inbox, appended_by, pruned,
                 left_sent,
                 scenario, mx, framing>>

\* handle_parsed_message, arm Command(CommandType::List)
HandleList(s) ==
  /\ pc[s] = "read"
  /\ s \in scenario.senders
  /\ ninputs < scenario.inputs
  /\ \E chat_msg \in ChatMessages : chat_msg.message_type = "list"
  /\ ninputs' = ninputs + 1
  /\ pc' = [pc EXCEPT ![s] = "list"]
  /\ UNCHANGED <<result, conn, clients, usernames, chat_history, clients_lock,
                 usernames_lock, history_lock, username, message, ret, msg_type,
                 todo, failed_clients, hist_idx, users, inbox, appended_by,
                 pruned, left_sent,
                 scenario, declared, mx, framing>>

\* handle_parsed_message, arm Command(CommandType::Quit) | Leave:
\* handle_client_disconnect calls broadcast_system_message with the kind received
HandleQuitOrLeave(s) ==
  /\ pc[s] = "read"
  /\ s \in scenario.senders
  /\ ninputs < scenario.inputs
  /\ \E chat_msg \in ChatMessages :
       /\ chat_msg.message_type \in {"quit", "leave"}
       /\ msg_type' = [msg_type EXCEPT ![s] = chat_msg.message_type]
       /\ message' = [message EXCEPT ![s] =
                        ChatMessage(chat_msg.message_type, Some(username[s][1]),
                                    LeftContent(username[s][1]))]
  /\ ninputs' = ninputs + 1
  /\ ret' = [ret EXCEPT ![s] = "disconnect"]
  /\ pc' = [pc EXCEPT ![s] = "bm_append"]
  /\ UNCHANGED <<result, conn, clients, usernames, chat_history, clients_lock,
                 usernames_lock, history_lock, username, todo, failed_clients,
                 hist_idx, users, inbox, appended_by, pruned, left_sent,
                 scenario, declared, mx, framing>>

\* a loop that relays a Join from the client as a Message
HandleUnhandled_Relays(s) ==
  /\ pc[s] = "read"
  /\ s \in scenario.senders
  /\ ninputs < scenario.inputs
  /\ \E chat_msg \in ChatMessages :
       /\ chat_msg.message_type = "join"
       /\ message' = [message EXCEPT ![s] = broadcast_msg(username[s][1], chat_msg)]
  /\ ninputs' = ninputs + 1
  /\ ret' = [ret EXCEPT ![s] = "message"]
  /\ pc' = [pc EXCEPT ![s] = "bm_append"]
  /\ UNCHANGED <<result, conn, clients, usernames, chat_history, clients_lock,
                 usernames_lock, history_lock, username, msg_type, todo,
                 failed_clients, hist_idx, users, inbox, appended_by, pruned,
                 left_sent,
                 scenario, declared, mx, framing>>

\* handle_parsed_message, arm _ (a Join from the client): eprintln and loop
HandleUnhandled(s) ==
  /\ pc[s] = "read"
  /\ s \in scenario.senders
  /\ ninputs < scenario.inputs
  /\ \E chat_msg \in ChatMessages : chat_msg.message_type = "join"
  /\ ninputs' = ninputs + 1
  /\ UNCHANGED <<pc, result, conn, clients, usernames, chat_history,
                 clients_lock, usernames_lock, history_lock, username, message,
                 ret, msg_type, todo, failed_clients, hist_idx, users, inbox,
                 appended_by, pruned, left_sent,
                 scenario, declared, mx, framing>>

\* ------------------------------------------------------------ send_user_list
\* usernames.read()?; usernames_lock.values().cloned().collect()
UserListSnapshot(s) ==
  /\ pc[s] = "list"
  /\ CanRead(usernames_lock)
  /\ \E order \in Orderings(DOMAIN usernames) :
       users' = [users EXCEPT ![s] =
                   [ids |-> order,
                    names |-> [i \in 1..Len(order) |-> usernames[order[i]]]]]
  /\ pc' = [pc EXCEPT ![s] = "list_write"]
  /\ UNCHANGED <<result, conn, ninputs, clients, usernames, chat_history,
                 clients_lock, usernames_lock, history_lock, username, message,
                 ret, msg_type, todo, failed_clients, hist_idx, inbox,
                 appended_by, pruned, left_sent,
                 scenario, declared, mx, framing>>

\* a reply of kind Message
ListReply_AsMessage(names) == ChatMessage("message", None, ListContent(names))

\* the reply send_user_list builds
ListReply(names) == ChatMessage("list", None, ListContent(names))

\* send_message_to_client(stream, &list_msg) succeeds
UserListWrite(s) ==
  /\ pc[s] = "list_write"
  /\ conn[s] = "open"
  /\ inbox' = [inbox EXCEPT ![s] =
                 Append(@, Written("list", ListReply(users[s].names), 0, s))]
  /\ users' = [users EXCEPT ![s] = NoUsers]
  /\ pc' = [pc EXCEPT ![s] = "read"]
  /\ UNCHANGED <<result, conn, ninputs, clients, usernames, chat_history,
                 clients_lock, usernames_lock, history_lock, username, message,
                 ret, msg_type, todo, failed_clients, hist_idx, appended_by,
                 pruned, left_sent,
                 scenario, declared, mx, framing>>

\* send_message_to_client fails: the error leaves handle_client through `?`
UserListWriteFails(s) ==
  /\ pc[s] = "list_write"
  /\ conn[s] = "closed"
  /\ users' = [users EXCEPT ![s] = NoUsers]
  /\ Return(s, "err")
  /\ UNCHANGED <<conn, ninputs, clients, usernames, chat_history, clients_lock,
                 usernames_lock, history_lock, username, message, ret, msg_type,
                 todo, failed_clients, hist_idx, inbox, appended_by, pruned,
                 left_sent,
                 scenario, declared, mx, framing>>

\* -------------------------------------------------- handle_client_disconnect
\* send_message_to_client(stream, &leave_msg) succeeds
DisconnectAck(s) ==
  /\ pc[s] = "dc_ack"
  /\ conn[s] = "open"
  /\ inbox' = [inbox EXCEPT ![s] = Append(@, Written("ack", message[s], CurIdx(s), s))]
  /\ pc' = [pc EXCEPT ![s] = "dc_clients"]
  /\ UNCHANGED <<result, conn, ninputs, clients, usernames, chat_history,
                 clients_lock, usernames_lock, history_lock, username, message,
                 ret, msg_type, todo, failed_clients, hist_idx, users,
                 appended_by, pruned, left_sent,
                 scenario, declared, mx, framing>>

\* send_message_to_client fails: the error leaves handle_client through `?`
DisconnectAckFails(s) ==
  /\ pc[s] = "dc_ack"
  /\ conn[s] = "closed"
  /\ Return(s, "err")
  /\ message' = [message EXCEPT ![s] = NoMessage]
  /\ ret' = [ret EXCEPT ![s] = "none"]
  /\ msg_type' = [msg_type EXCEPT ![s] = "none"]
  /\ UNCHANGED <<conn, ninputs, clients, usernames, chat_history, clients_lock,
                 usernames_lock, history_lock, username, todo, failed_clients,
                 hist_idx, users, inbox, appended_by, pruned, left_sent,
                 scenario, declared, mx, framing>>

\* clients.write()?; clients_lock.remove(&peer_addr)
DisconnectRemoveClient(s) ==
  /\ pc[s] = "dc_clients"
  /\ CanWrite(clients_lock)
  /\ clients_lock' = [clients_lock EXCEPT !.writer = s]
  /\ clients' = clients \ {s}
  /\ pc' = [pc EXCEPT ![s] = "dc_usernames"]
  /\ UNCHANGED <<result, conn, ninputs, usernames, chat_history, usernames_lock,
                 history_lock, username, message, ret, msg_type, todo,
                 failed_clients, hist_idx, users, inbox, appended_by, pruned,
                 left_sent,
                 scenario, declared, mx, framing>>

\* usernames.write()?; usernames_lock.remove(&peer_addr); both guards dropped;
\* Ok(()) returns to the loop of handle_client_messages
DisconnectRemoveUsername(s) ==
  /\ pc[s] = "dc_usernames"
  /\ CanWrite(usernames_lock)
  /\ usernames' = MapRemove(usernames, s)
  /\ clients_lock' = [clients_lock EXCEPT !.writer = 0]
  /\ message' = [message EXCEPT ![s] = NoMessage]
  /\ ret' = [ret EXCEPT ![s] = "none"]
  /\ msg_type' = [msg_type EXCEPT ![s] = "none"]
  /\ pc' = [pc EXCEPT ![s] = "read"]
  /\ UNCHANGED <<result, conn, ninputs, clients, chat_history, usernames_lock,
                 history_lock, username, todo, failed_clients, hist_idx, users,
                 inbox, appended_by, pruned, left_sent,
                 scenario, declared, mx, framing>>

\* ------------------------------------------------------------ cleanup_client
\* clients.write().ok().map(|mut lock| lock.remove(&peer_addr))
CleanupClients(s) ==
  /\ pc[s] = "cleanup"
  /\ CanWrite(clients_lock)
  /\ clients' = clients \ {s}
  /\ pc' = [pc EXCEPT ![s] = "cleanup_usernames"]
  /\ UNCHANGED <<result, conn, ninputs, usernames, chat_history, clients_lock,
                 usernames_lock, history_lock, username, message, ret, msg_type,
                 todo, failed_clients, hist_idx, users, inbox, appended_by,
                 pruned, left_sent,
                 scenario, declared, mx, framing>>

\* usernames.write().ok().map(|mut lock| lock.remove(&peer_addr)); Ok(())
CleanupUsernames(s) ==
  /\ pc[s] = "cleanup_usernames"
  /\ CanWrite(usernames_lock)
  /\ usernames' = MapRemove(usernames, s)
  /\ Return(s, "ok")
  /\ UNCHANGED <<conn, ninputs, clients, chat_history, clients_lock,
                 usernames_lock, history_lock, username, message, ret, msg_type,
                 todo, failed_clients, hist_idx, users, inbox, appended_by,
                 pruned, left_sent,
                 scenario, declared, mx, framing>>

\* ------------------------------------------------------------ specification
Next ==
  \E s \in Ids :
    \/ Close(s)
    \/ RegisterFails(s)
    \/ RegisterClient(s)
    \/ GetUsernameDisconnected(s)
    \/ GetUsernameInvalid(s)
    \/ GetClientUsername(s)
    \/ HistoryReadLock(s)
    \/ ReplayWrite(s)
    \/ ReplayFails(s)
    \/ ReplayDone(s)
    \/ BroadcastJoinMessage(s)
    \/ BroadcastAppend(s)
    \/ BroadcastReadLock(s)
    \/ BroadcastWrite(s)
    \/ BroadcastWriteFails(s)
    \/ BroadcastLoopEnd(s)
    \/ BroadcastPrune(s)
    \/ ReadClosed(s)
    \/ ReadUnparseable(s)
    \/ HandleMessage(s)
    \/ HandleList(s)
    \/ HandleQuitOrLeave(s)
    \/ HandleUnhandled(s)
    \/ UserListSnapshot(s)
    \/ UserListWrite(s)
    \/ UserListWriteFails(s)
    \/ DisconnectAck(s)
    \/ DisconnectAckFails(s)
    \/ DisconnectRemoveClient(s)
    \/ DisconnectRemoveUsername(s)
    \/ CleanupClients(s)
    \/ CleanupUsernames(s)

Spec == Init /\ [][Next]_vars

\* ------------------------------------------------- the fan-out to two others
\* NumSessions connections with valid handshakes; connection 1 sends one
\* Message line and connection 2 may close
Trio ==
  [sessions |-> Ids, closers |-> {2}, senders |-> {1},
   closes |-> MaxCloses, inputs |-> 1, names |-> {"alice", "bob"}]

InitFanout == Start(Trio)

NextFanout ==
  \E s \in Ids :
    \/ Close(s)
    \/ RegisterFails(s)
    \/ RegisterClient(s)
    \/ GetUsernameDisconnected(s)
    \/ GetClientUsername(s)
    \/ HistoryReadLock(s)
    \/ ReplayWrite(s)
    \/ ReplayFails(s)
    \/ ReplayDone(s)
    \/ BroadcastJoinMessage(s)
    \/ BroadcastAppend(s)
    \/ BroadcastReadLock(s)
    \/ BroadcastWrite(s)
    \/ BroadcastWriteFails(s)
    \/ BroadcastLoopEnd(s)
    \/ BroadcastPrune(s)
    \/ ReadClosed(s)
    \/ HandleMessage(s)
    \/ CleanupClients(s)
    \/ CleanupUsernames(s)

SpecFanout == InitFanout /\ [][NextFanout]_vars

\* ===================================================== src/src/server.rs
\* The Mutex-based server: main inserts each accepted connection into the
\* clients map and spawns handle_client; every lock is taken with
\* lock().unwrap(), which panics once a holder of the mutex has panicked.
Main == 0

\* the state of the RwLock-based server that server.rs has no counterpart of
rw_only == <<usernames_lock, msg_type, failed_clients, users, pruned, left_sent,
             declared, scenario>>

\* the process lives until its main thread panics; a panicked thread is gone
Alive(s) == Main \notin panicked /\ s \notin panicked

\* format!("{} has entered the chat", username)
EnteredContent(n) == n \o " has entered the chat"

\* a thread panics outside any guard, or inside lock().unwrap()
Panics(s) ==
  /\ panicked' = panicked \cup {s}
  /\ pc' = [pc EXCEPT ![s] = "done"]
  /\ result' = [result EXCEPT ![s] = "panic"]

\* main: clients.lock().unwrap().insert(peer_addr, ..); thread::spawn(handle_client)
MxAccept(s) ==
  /\ s \in scenario.sessions
  /\ pc[s] = "register"
  /\ Main \notin panicked
  /\ "clients" \notin poisoned
  /\ clients_lock.writer = 0
  /\ clients' = clients \cup {s}
  /\ pc' = [pc EXCEPT ![s] = "mx_username"]
  /\ UNCHANGED <<result, conn, ninputs, usernames, chat_history, clients_lock,
                 history_lock, username, message, ret, todo, hist_idx, inbox,
                 appended_by, poisoned, panicked, rw_only, framing>>

\* main: clients.lock() returns the PoisonError and unwrap panics
MxAcceptPanics(s) ==
  /\ s \in scenario.sessions
  /\ pc[s] = "register"
  /\ Main \notin panicked
  /\ "clients" \in poisoned
  /\ clients_lock.writer = 0
  /\ panicked' = panicked \cup {Main}
  /\ UNCHANGED <<pc, result, conn, ninputs, clients, usernames, chat_history,
                 clients_lock, history_lock, username, message, ret, todo,
                 hist_idx, inbox, appended_by, poisoned, rw_only, framing>>

\* handle_client: the first read gives bytes; usernames.lock().unwrap().insert
MxUsername(s) ==
  /\ pc[s] = "mx_username"
  /\ Alive(s)
  /\ \E name \in NamesOf(s) \cap scenario.names :
       /\ username' = [username EXCEPT ![s] = Some(name)]
       /\ usernames' = MapInsert(usernames, s, name)
  /\ pc' = [pc EXCEPT ![s] = "mx_history"]
  /\ UNCHANGED <<result, conn, ninputs, clients, chat_history, clients_lock,
                 history_lock, message, ret, todo, hist_idx, inbox, appended_by,
                 poisoned, panicked, rw_only, framing>>

\* handle_client: the first read gives Ok(0) or Err: return
MxUsernameFails(s) ==
  /\ pc[s] = "mx_username"
  /\ Alive(s)
  /\ conn[s] = "closed"
  /\ Return(s, "ok")
  /\ UNCHANGED <<conn, ninputs, clients, usernames, chat_history, clients_lock,
                 history_lock, username, message, ret, todo, hist_idx, inbox,
                 appended_by, poisoned, panicked, rw_only, framing>>

\* let history = chat_history.lock().unwrap()
MxHistoryLock(s) ==
  /\ pc[s] = "mx_history"
  /\ Alive(s)
  /\ history_lock.writer = 0
  /\ history_lock' = [history_lock EXCEPT !.writer = s]
  /\ hist_idx' = [hist_idx EXCEPT ![s] = 1]
  /\ pc' = [pc EXCEPT ![s] = "mx_replay"]
  /\ UNCHANGED <<result, conn, ninputs, clients, usernames, chat_history,
                 clients_lock, username, message, ret, todo, inbox, appended_by,
                 poisoned, panicked, rw_only, framing>>

\* one old_msg of the loop: written, or the error printed
MxReplayWrite(s) ==
  /\ pc[s] = "mx_replay"
  /\ Alive(s)
  /\ hist_idx[s] <= Len(chat_history)
  /\ inbox' = IF conn[s] = "open"
                THEN [inbox EXCEPT ![s] =
                        Append(@, Written("replay", chat_history[hist_idx[s]],
                                          hist_idx[s], s))]
                ELSE inbox
  /\ hist_idx' = [hist_idx EXCEPT ![s] = @ + 1]
  /\ UNCHANGED <<pc, result, conn, ninputs, clients, usernames, chat_history,
                 clients_lock, history_lock, username, message, ret, todo,
                 appended_by, poisoned, panicked, rw_only, framing>>

\* the history guard is dropped and join_msg is built
MxReplayDone(s) ==
  /\ pc[s] = "mx_replay"
  /\ Alive(s)
  /\ hist_idx[s] > Len(chat_history)
  /\ history_lock' = [history_lock EXCEPT !.writer = 0]
  /\ hist_idx' = [hist_idx EXCEPT ![s] = 0]
  /\ message' = [message EXCEPT ![s] =
                   ChatMessage("join", username[s], EnteredContent(username[s][1]))]
  /\ ret' = [ret EXCEPT ![s] = "join"]
  /\ pc' = [pc EXCEPT ![s] = "mx_push"]
  /\ UNCHANGED <<result, conn, ninputs, clients, usernames, chat_history,
                 clients_lock, username, todo, inbox, appended_by, poisoned,
                 panicked, rw_only, framing>>

\* chat_history.lock().unwrap().push(..clone()), then broadcast_message is called
MxPush(s) ==
  /\ pc[s] = "mx_push"
  /\ Alive(s)
  /\ history_lock.writer = 0
  /\ Len(chat_history) < MaxHistory
  /\ chat_history' = Append(chat_history, message[s])
  /\ appended_by' = Append(appended_by, [id |-> s, site |-> ret[s]])
  /\ pc' = [pc EXCEPT ![s] = "mx_lock"]
  /\ UNCHANGED <<result, conn, ninputs, clients, usernames, clients_lock,
                 history_lock, username, message, ret, todo, hist_idx, inbox,
                 poisoned, panicked, rw_only, framing>>

\* broadcast_message: let mut clients = clients.lock().unwrap()
MxLock(s) ==
  /\ pc[s] = "mx_lock"
  /\ Alive(s)
  /\ "clients" \notin poisoned
  /\ clients_lock.writer = 0
  /\ clients_lock' = [clients_lock EXCEPT !.writer = s]
  /\ todo' = [todo EXCEPT ![s] = Recipients(clients, s)]
  /\ pc' = [pc EXCEPT ![s] = "mx_write"]
  /\ UNCHANGED <<result, conn, ninputs, clients, usernames, chat_history,
                 history_lock, username, message, ret, hist_idx, inbox,
                 appended_by, poisoned, panicked, rw_only, framing>>

\* broadcast_message: clients.lock() returns the PoisonError and unwrap panics
MxLockPanics(s) ==
  /\ pc[s] = "mx_lock"
  /\ Alive(s)
  /\ "clients" \in poisoned
  /\ clients_lock.writer = 0
  /\ Panics(s)
  /\ UNCHANGED <<conn, ninputs, clients, usernames, chat_history, clients_lock,
                 history_lock, username, message, ret, todo, hist_idx, inbox,
                 appended_by, poisoned, rw_only, framing>>

\* one iteration of the loop: both write_all calls succeed
MxWrite(s) ==
  /\ pc[s] = "mx_write"
  /\ Alive(s)
  /\ \E addr \in todo[s] :
       /\ conn[addr] = "open"
       /\ inbox' = [inbox EXCEPT ![addr] =
                      Append(@, Written("fanout", message[s],
                                        IF ret[s] = "leave" THEN 0 ELSE CurIdx(s), s))]
       /\ todo' = [todo EXCEPT ![s] = @ \ {addr}]
  /\ UNCHANGED <<pc, result, conn, ninputs, clients, usernames, chat_history,
                 clients_lock, history_lock, username, message, ret, hist_idx,
                 appended_by, poisoned, panicked, rw_only, framing>>

\* one iteration of the loop: write_all(..).unwrap() panics; unwinding drops
\* the guard, which poisons the clients mutex
MxWritePanics(s) ==
  /\ pc[s] = "mx_write"
  /\ Alive(s)
  /\ \E addr \in todo[s] : conn[addr] = "closed"
  /\ todo' = [todo EXCEPT ![s] = {}]
  /\ clients_lock' = [clients_lock EXCEPT !.writer = 0]
  /\ poisoned' = poisoned \cup {"clients"}
  /\ Panics(s)
  /\ UNCHANGED <<conn, ninputs, clients, usernames, chat_history, history_lock,
                 username, message, ret, hist_idx, inbox, appended_by, rw_only, framing>>

\* the loop ends, the guard is dropped and broadcast_message returns
MxLoopEnd(s) ==
  /\ pc[s] = "mx_write"
  /\ Alive(s)
  /\ todo[s] = {}
  /\ clients_lock' = [clients_lock EXCEPT !.writer = 0]
  /\ pc' = [pc EXCEPT ![s] = IF ret[s] = "leave" THEN "mx_remove_client" ELSE "mx_read"]
  /\ message' = [message EXCEPT ![s] = NoMessage]
  /\ ret' = [ret EXCEPT ![s] = "none"]
  /\ UNCHANGED <<result, conn, ninputs, clients, usernames, chat_history,
                 history_lock, username, todo, hist_idx, inbox, appended_by,
                 poisoned, panicked, rw_only, framing>>

\* the loop of handle_client: a "message" is rebuilt under the name the
\* usernames map holds, pushed to the history and broadcast
MxHandleMessage(s) ==
  /\ pc[s] = "mx_read"
  /\ Alive(s)
  /\ s \in scenario.senders
  /\ ninputs < scenario.inputs
  /\ \E parsed_msg \in ChatMessages :
       /\ parsed_msg.message_type = "message"
       /\ message' = [message EXCEPT ![s] =
                        ChatMessage("message", Some(usernames[s]), parsed_msg.content)]
  /\ ninputs' = ninputs + 1
  /\ ret' = [ret EXCEPT ![s] = "message"]
  /\ pc' = [pc EXCEPT ![s] = "mx_push"]
  /\ UNCHANGED <<result, conn, clients, usernames, chat_history, clients_lock,
                 history_lock, username, todo, hist_idx, inbox, appended_by,
                 poisoned, panicked, rw_only, framing>>

\* the loop of handle_client: the line does not parse, or its message_type is
\* "join", "leave" or unknown: println and loop
MxReadIgnored(s) ==
  /\ pc[s] = "mx_read"
  /\ Alive(s)
  /\ s \in scenario.senders
  /\ ninputs < scenario.inputs
  /\ \E raw_msg \in {"not json", "join", "leave", "unknown"} : ninputs' = ninputs + 1
  /\ UNCHANGED <<pc, result, conn, clients, usernames, chat_history,
                 clients_lock, history_lock, username, message, ret, todo,
                 hist_idx, inbox, appended_by, poisoned, panicked, rw_only, framing>>

\* the read gives Ok(0) or Err: break; leave_msg is built from the usernames
\* map and broadcast_message is called (the notice is not pushed to the history)
MxReadClosed(s) ==
  /\ pc[s] = "mx_read"
  /\ Alive(s)
  /\ conn[s] = "closed"
  /\ message' = [message EXCEPT ![s] =
                   ChatMessage("leave", Some(usernames[s]), LeftContent(usernames[s]))]
  /\ ret' = [ret EXCEPT ![s] = "leave"]
  /\ pc' = [pc EXCEPT ![s] = "mx_lock"]
  /\ UNCHANGED <<result, conn, ninputs, clients, usernames, chat_history,
                 clients_lock, history_lock, username, todo, hist_idx, inbox,
                 appended_by, poisoned, panicked, rw_only, framing>>

\* clients.lock().unwrap().remove(&peer_addr)
MxRemoveClient(s) ==
  /\ pc[s] = "mx_remove_client"
  /\ Alive(s)
  /\ "clients" \notin poisoned
  /\ clients_lock.writer = 0
  /\ clients' = clients \ {s}
  /\ pc' = [pc EXCEPT ![s] = "mx_remove_username"]
  /\ UNCHANGED <<result, conn, ninputs, usernames, chat_history, clients_lock,
                 history_lock, username, message, ret, todo, hist_idx, inbox,
                 appended_by, poisoned, panicked, rw_only, framing>>

\* clients.lock() returns the PoisonError and unwrap panics
MxRemoveClientPanics(s) ==
  /\ pc[s] = "mx_remove_client"
  /\ Alive(s)
  /\ "clients" \in poisoned
  /\ clients_lock.writer = 0
  /\ Panics(s)
  /\ UNCHANGED <<conn, ninputs, clients, usernames, chat_history, clients_lock,
                 history_lock, username, message, ret, todo, hist_idx, inbox,
                 appended_by, poisoned, rw_only, framing>>

\* usernames.lock().unwrap().remove(&peer_addr); handle_client returns
MxRemoveUsername(s) ==
  /\ pc[s] = "mx_remove_username"
  /\ Alive(s)
  /\ usernames' = MapRemove(usernames, s)
  /\ Return(s, "ok")
  /\ UNCHANGED <<conn, ninputs, clients, chat_history, clients_lock,
                 history_lock, username, message, ret, todo, hist_idx, inbox,
                 appended_by, poisoned, panicked, rw_only, framing>>

InitMutex == Start(Trio)

NextMutex ==
  \E s \in Ids :
    \/ Close(s)
    \/ MxAccept(s)
    \/ MxAcceptPanics(s)
    \/ MxUsername(s)
    \/ MxUsernameFails(s)
    \/ MxHistoryLock(s)
    \/ MxReplayWrite(s)
    \/ MxReplayDone(s)
    \/ MxPush(s)
    \/ MxLock(s)
    \/ MxLockPanics(s)
    \/ MxWrite(s)
    \/ MxWritePanics(s)
    \/ MxLoopEnd(s)
    \/ MxHandleMessage(s)
    \/ MxReadIgnored(s)
    \/ MxReadClosed(s)
    \/ MxRemoveClient(s)
    \/ MxRemoveClientPanics(s)
    \/ MxRemoveUsername(s)

SpecMutex == InitMutex /\ [][NextMutex]_vars

\* ------------------------------------------------ the threads, scheduled fairly
\* MaxLive connections; connection 1 sends one line and either peer may close
Duo ==
  [sessions |-> 1..MaxLive, closers |-> 1..MaxLive, senders |-> {1},
   closes |-> MaxCloses, inputs |-> 1, names |-> Names]

InitLive == Start(Duo)

\* the steps of handler thread s that wait for nothing but a lock or the return
\* of a network call: every step except the arrival of a line from the peer
Progress(s) ==
  \/ RegisterFails(s)
  \/ RegisterClient(s)
  \/ GetUsernameDisconnected(s)
  \/ GetUsernameInvalid(s)
  \/ GetClientUsername(s)
  \/ HistoryReadLock(s)
  \/ ReplayWrite(s)
  \/ ReplayFails(s)
  \/ ReplayDone(s)
  \/ BroadcastJoinMessage(s)
  \/ BroadcastAppend(s)
  \/ BroadcastReadLock(s)
  \/ BroadcastWrite(s)
  \/ BroadcastWriteFails(s)
  \/ BroadcastLoopEnd(s)
  \/ BroadcastPrune(s)
  \/ ReadClosed(s)
  \/ UserListSnapshot(s)
  \/ UserListWrite(s)
  \/ UserListWriteFails(s)
  \/ DisconnectAck(s)
  \/ DisconnectAckFails(s)
  \/ DisconnectRemoveClient(s)
  \/ DisconnectRemoveUsername(s)
  \/ CleanupClients(s)
  \/ CleanupUsernames(s)

\* each handler is a thread of its own (thread::spawn in main) that the
\* operating system keeps scheduling
SpecLive == InitLive /\ [][Next]_vars /\ \A s \in Ids : WF_vars(Progress(s))

\* ------------------------------------------- one connection, byte by byte
\* the kinds of line the client writes: send_join_message first, then what
\* parse_user_input makes of the user's input
LineKinds == {"join", "message", "list"}

\* client.rs send_message: format!("{}\n", serde_json::to_string(message)); the
\* text of the JSON object is kept as an opening brace, its content, a closing
\* brace
Encode(k) == <<"{", k, "}", "\n">>

\* str::trim: the whitespace at both ends is dropped
RECURSIVE TrimStart(_)
TrimStart(b) == IF b # << >> /\ Head(b) = "\n" THEN TrimStart(Tail(b)) ELSE b
RECURSIVE TrimEnd(_)
TrimEnd(b) ==
  IF b # << >> /\ b[Len(b)] = "\n" THEN TrimEnd(SubSeq(b, 1, Len(b) - 1)) ELSE b
Trim(b) == TrimEnd(TrimStart(b))

\* serde_json::from_str::<ChatMessage>: the text is one whole JSON object and
\* nothing else; a part of an object, or anything after the object, is an error
from_str(raw) ==
  IF Len(raw) = 3 /\ raw[1] = "{" /\ raw[2] \in LineKinds /\ raw[3] = "}"
    THEN Some(raw[2])
    ELSE None

\* stream.read(&mut buffer): the lengths one read may return
ReadLens == 1..(IF Len(wire) < BufferLen THEN Len(wire) ELSE BufferLen)

\* String::from_utf8_lossy(&buffer[..n]).trim() of a read of n bytes
RawMsg(n) == Trim(SubSeq(wire, 1, n))

\* client.rs: send_join_message at the handshake, send_message for every input
ClientSends(k) ==
  /\ peer = "open"
  /\ Len(sent) < MaxLines
  /\ k = "join" <=> sent = << >>
  /\ sent' = Append(sent, k)
  /\ wire' = wire \o Encode(k)
  /\ UNCHANGED <<dispatched, peer, reader, envelope_level>>

\* the client closes its end
ClientCloses ==
  /\ peer = "open"
  /\ peer' = "closed"
  /\ UNCHANGED <<sent, wire, dispatched, reader, envelope_level>>

\* get_client_username: one read, trimmed and parsed as one envelope; a chunk
\* that does not parse is Err(InvalidMessage) and handle_client returns
ReadUsername(n) ==
  /\ reader = "get_username"
  /\ n \in ReadLens
  /\ wire' = SubSeq(wire, n + 1, Len(wire))
  /\ IF from_str(RawMsg(n)) # None
       THEN /\ dispatched' = dispatched \o from_str(RawMsg(n))
            /\ reader' = "loop"
       ELSE /\ reader' = "done"
            /\ UNCHANGED dispatched
  /\ UNCHANGED <<sent, peer, envelope_level>>

\* get_client_username: the read returns 0, Err(ClientDisconnected)
ReadUsernameEof ==
  /\ reader = "get_username"
  /\ wire = << >>
  /\ peer = "closed"
  /\ reader' = "done"
  /\ UNCHANGED <<sent, wire, dispatched, peer, envelope_level>>

\* handle_client_messages, Ok(n): the chunk is trimmed and parsed as one
\* envelope; handle_parsed_message if it parses, eprintln! if it does not
ReadChunk(n) ==
  /\ reader = "loop"
  /\ n \in ReadLens
  /\ wire' = SubSeq(wire, n + 1, Len(wire))
  /\ dispatched' = dispatched \o from_str(RawMsg(n))
  /\ UNCHANGED <<sent, peer, reader, envelope_level>>

\* handle_client_messages, Ok(0) => break
ReadEof ==
  /\ reader = "loop"
  /\ wire = << >>
  /\ peer = "closed"
  /\ reader' = "done"
  /\ UNCHANGED <<sent, wire, dispatched, peer, envelope_level>>

InitFraming == Start(Pair)

NextFraming ==
  \/ \E k \in LineKinds : ClientSends(k)
  \/ ClientCloses
  \/ \E n \in 1..BufferLen : ReadUsername(n)
  \/ ReadUsernameEof
  \/ \E n \in 1..BufferLen : ReadChunk(n)
  \/ ReadEof

SpecFraming == InitFraming /\ [][NextFraming]_vars

\* ------------------------------------------------------------------ claims
\* the handshake of s got as far as appending its Join
Joined(s) == \E i \in 1..Len(appended_by) : appended_by[i] = [id |-> s, site |-> "join"]

\* the history positions handle_client_disconnect of s appended
LeavesOf(s) ==
  {i \in 1..Len(appended_by) : appended_by[i] = [id |-> s, site |-> "disconnect"]}

\* the history positions any call by s appended
AppendsOf(s) == {i \in 1..Len(appended_by) : appended_by[i].id = s}

\* the writes of one kind a connection has received, in order
Received(s, via) == SelectSeq(inbox[s], LAMBDA w : w.via = via)

\* a display name of 1 to 20 characters
ValidName(n) == Len(n) >= 1 /\ Len(n) <= MaxNameLen

\* this step is send_user_list of s taking its snapshot of the usernames map
ListTaken(s) == pc[s] = "list" /\ pc'[s] = "list_write"

\* the identities whose names the snapshot of s holds
Listed(u) == {u.ids[i] : i \in 1..Len(u.ids)}

\* C1: a connection receives the history as it stood when its replay began,
\* in log order, and receives nothing through live fan-out from the moment
\* register_client ran until its replay has ended.
C1_ReplayBeforeLive ==
  \A s \in Ids :
    /\ pc[s] \in {"get_username", "send_history", "replay"} => Received(s, "fanout") = << >>
    /\ \A i, j \in 1..Len(inbox[s]) :
         (i < j /\ inbox[s][j].via = "replay") => inbox[s][i].via = "replay"
    /\ LET r == Received(s, "replay")
       IN /\ Len(r) <= Len(chat_history)
          /\ \A i \in 1..Len(r) : r[i] = Written("replay", chat_history[i], i, s)

\* C2: a handler that broadcast its Join and has returned after its read loop
\* ended has appended a leave notice ("<name> has left the chat") to the history.
C2_LeaveOnEveryExit ==
  \A s \in Ids :
    (pc[s] = "done" /\ result[s] = "ok" /\ Joined(s)) =>
      \E i \in LeavesOf(s) : chat_history[i].content = username[s][1] \o " has left the chat"

\* C3: at most one leave notice per session is ever appended to the history.
C3_LeaveAtMostOnce == \A s \in Ids : Cardinality(LeavesOf(s)) <= 1

\* C4: when handle_client of a session that reached the message loop has
\* returned, with Ok or with an error, the session is in neither registry map.
C4_TeardownOnReturn ==
  \A s \in Ids :
    (pc[s] = "done" /\ Joined(s)) => (s \notin clients /\ s \notin DOMAIN usernames)

\* C5: once a broadcast has unregistered a recipient whose write failed, no
\* /list snapshot taken by another session holds that recipient's name.
C5_FailedRecipientNotListed ==
  [][\A s \in Ids : ListTaken(s) => Listed(users'[s]) \cap (pruned \ {s}) = {}]_vars

\* C6: once the leave notice of a session has been fanned out, no /list
\* snapshot taken afterwards holds that session's name.
C6_LeftSessionNotListed ==
  [][\A s \in Ids : ListTaken(s) => Listed(users'[s]) \cap left_sent = {}]_vars

\* C7: a connection that declared an empty or over-long name gets no entry in
\* the usernames map, appends nothing to the history and leaves no writer
\* behind in the clients map; every registered name has 1 to 20 characters.
C7_InvalidNameNeverRegistered ==
  /\ \A s \in Ids :
       (username[s] # None /\ ~ValidName(username[s][1])) =>
         /\ s \notin DOMAIN usernames
         /\ AppendsOf(s) = {}
         /\ pc[s] = "done" => s \notin clients
  /\ \A a \in DOMAIN usernames : ValidName(usernames[a])

\* C8: after a failed handshake nothing of the session is left: no history
\* entry, no name, no writer in the clients map.
C8_FailedHandshakeLeavesNothing ==
  \A s \in Ids :
    (pc[s] = "done" /\ result[s] = "err" /\ ~Joined(s)) =>
      /\ AppendsOf(s) = {}
      /\ s \notin DOMAIN usernames
      /\ s \notin clients

\* the fan-out of s has written its current envelope to connection a
Delivered(s, a) ==
  \E i \in 1..Len(inbox[a]) : inbox[a][i] = Written("fanout", message[s], CurIdx(s), s)

\* C9: no fan-out write ever goes to the sender's own connection, and the
\* fan-out pass leaves out nobody else: every other registered writer, whatever
\* its display name, is still to be visited, has failed, or has the envelope.
C9_NoSelfDelivery ==
  /\ \A s \in Ids : \A i \in 1..Len(inbox[s]) :
       inbox[s][i].via = "fanout" => inbox[s][i].by # s
  /\ \A s \in Ids :
       pc[s] = "bm_write" =>
         /\ s \notin todo[s]
         /\ \A a \in clients \ {s} :
              a \in todo[s] \/ a \in failed_clients[s] \/ Delivered(s, a)

\* C9: a session has received a chat message from another session that is
\* registered under the same display name.
C9_SameNameDelivered ==
  \E s, r \in DOMAIN usernames :
    /\ s # r
    /\ usernames[s] = usernames[r]
    /\ \E i \in 1..Len(inbox[r]) :
         /\ inbox[r][i].via = "fanout"
         /\ inbox[r][i].by = s
         /\ inbox[r][i].env.message_type = "message"

\* handle_client_disconnect of s has appended its envelope and not yet returned
Leaving(s) ==
  /\ ret[s] = "disconnect"
  /\ pc[s] \in {"bm_lock", "bm_write", "bm_prune", "dc_ack", "dc_clients", "dc_usernames"}

C11_FailureNotFatal ==
  [][\A s \in Ids :
       /\ BroadcastWriteFails(s) =>
            /\ pc'[s] = "bm_write"
            /\ result'[s] = "running"
            /\ clients' = clients
            /\ usernames' = usernames
       /\ (pc[s] = "bm_write" /\ pc'[s] # "bm_write") =>
            /\ \A a \in clients \ {s} : a \in failed_clients[s] \/ Delivered(s, a)
            /\ pc'[s] = IF failed_clients[s] = {} THEN AfterBroadcast(s) ELSE "bm_prune"
            /\ result'[s] = "running"
            /\ clients' = clients
            /\ usernames' = usernames
       /\ (pc[s] = "bm_prune" /\ pc'[s] # "bm_prune") =>
            /\ clients' = clients \ failed_clients[s]
            /\ usernames' = usernames
            /\ pc'[s] = AfterBroadcast(s)
            /\ pc'[s] \in {"read", "dc_ack"}
            /\ result'[s] = "running"]_vars

\* C11: the pass that relays a Message has ended with one recipient failed and
\* another registered recipient holding the envelope.
C11_OthersStillServed ==
  \E s \in Ids : \E f \in Ids \ {s} : \E a \in Ids \ {s, f} :
    /\ pc[s] = "bm_prune"
    /\ ret[s] = "message"
    /\ failed_clients[s] = {f}
    /\ a \in clients
    /\ Delivered(s, a)

\* thread t stands inside a section of code that writes to connection c: the
\* fan-out loop with c still to visit, or c's own handler at a direct write
Writing(t, c) ==
  \/ pc[t] = "bm_write" /\ c \in todo[t]
  \/ t = c /\ pc[t] = "replay" /\ hist_idx[t] <= Len(chat_history)
  \/ t = c /\ pc[t] \in {"list_write", "dc_ack"}

\* C12: at any moment at most one thread is writing to a given connection:
\* no two fan-outs, and no fan-out and direct write by the owning handler
\* (replay, /list reply, quit acknowledgment), write to it concurrently.
C12_OneWriterPerConnection ==
  \A c \in Ids : conn[c] = "open" => Cardinality({t \in Ids : Writing(t, c)}) <= 1

\* C13: every envelope is appended to the history before it is fanned out: a
\* thread inside its fan-out has its envelope in the history, and every
\* envelope a connection received through fan-out stands in the history at the
\* position it was appended at.
C13_AppendBeforeFanout ==
  /\ \A s \in Ids :
       pc[s] \in {"bm_lock", "bm_write", "bm_prune"} =>
         /\ CurIdx(s) \in 1..Len(chat_history)
         /\ chat_history[CurIdx(s)] = message[s]
  /\ \A a \in Ids : \A i \in 1..Len(inbox[a]) :
       inbox[a][i].via = "fanout" =>
         /\ inbox[a][i].idx \in 1..Len(chat_history)
         /\ chat_history[inbox[a][i].idx] = inbox[a][i].env

\* C13: a connection received through fan-out the envelope that stands last in
\* a history of two or more entries.
C13_FanoutReceived ==
  \E a \in Ids : \E i \in 1..Len(inbox[a]) :
    /\ inbox[a][i].via = "fanout"
    /\ inbox[a][i].idx = Len(chat_history)
    /\ Len(chat_history) >= 2

\* C14: a replay observes one snapshot of the history: while send_chat_history
\* runs no append takes effect, what it has written is the history's prefix in
\* order without gap or repetition, and when its loop ends it has written the
\* whole history as it stands.
C14_ReplaySnapshot ==
  [][\A s \in Ids :
       pc[s] = "replay" =>
         /\ chat_history' = chat_history
         /\ s \in history_lock.readers
         /\ Received(s, "replay") =
              [i \in 1..(hist_idx[s] - 1) |-> Written("replay", chat_history[i], i, s)]
         /\ pc'[s] = "set_name" => hist_idx[s] - 1 = Len(chat_history)]_vars

\* C14: a replay has written an entry and has more to write while another
\* thread waits in broadcast_message to append.
C14_AppendWaitsForReplay ==
  \E s, t \in Ids :
    /\ pc[s] = "replay"
    /\ hist_idx[s] = 2
    /\ Len(chat_history) >= 2
    /\ pc[t] = "bm_append"

\* C15: the server is authoritative for attribution: every Message envelope
\* about to be appended, appended to the history or fanned out carries as
\* sender the display name its session declared at the handshake, whatever
\* username field the client put on the line, and a session's name never
\* changes once read.
C15_ServerAttributes ==
  [][/\ \A s \in Ids : username[s] # None => username'[s] = username[s]
     /\ \A s \in Ids :
          (pc'[s] = "bm_append" /\ ret'[s] = "message") =>
            message'[s].username = username'[s]
     /\ \A i \in 1..Len(chat_history') :
          appended_by'[i].site = "message" =>
            /\ chat_history'[i].message_type = "message"
            /\ username'[appended_by'[i].id] # None
            /\ chat_history'[i].username = username'[appended_by'[i].id]
     /\ \A a \in Ids : \A i \in 1..Len(inbox'[a]) :
          (inbox'[a][i].via = "fanout" /\ inbox'[a][i].env.message_type = "message") =>
            inbox'[a][i].env.username = username'[inbox'[a][i].by]]_vars

\* C15: a session's line named another sender, or none, in its username field,
\* and the envelope appended for it carries the session's own name.
C15_ForeignNameOverwritten ==
  \E s \in Ids :
    /\ pc[s] = "bm_lock"
    /\ ret[s] = "message"
    /\ declared[s] # username[s]
    /\ declared[s] # None
    /\ chat_history[CurIdx(s)].username = username[s]

\* C16: handling /list changes neither the history nor the clients map nor the
\* usernames map, writes nothing to any other connection, and writes to the
\* requester exactly one envelope, of kind Command(List) with no sender, when
\* its write succeeds.
C16_ListChangesNothing ==
  [][\A s \in Ids :
       (HandleList(s) \/ UserListSnapshot(s) \/ UserListWrite(s) \/ UserListWriteFails(s)) =>
         /\ chat_history' = chat_history
         /\ clients' = clients
         /\ usernames' = usernames
         /\ \A a \in Ids \ {s} : inbox'[a] = inbox[a]
         /\ IF UserListWrite(s)
              THEN /\ Len(inbox'[s]) = Len(inbox[s]) + 1
                   /\ SubSeq(inbox'[s], 1, Len(inbox[s])) = inbox[s]
                   /\ inbox'[s][Len(inbox'[s])].env.message_type = "list"
                   /\ inbox'[s][Len(inbox'[s])].env.username = None
              ELSE inbox'[s] = inbox[s]]_vars

\* C16: a session back in its loop received a /list reply last while another
\* registered, named session received none.
C16_OnlyRequesterReplied ==
  \E s \in Ids : \E a \in Ids \ {s} :
    /\ pc[s] = "read"
    /\ inbox[s] # << >>
    /\ inbox[s][Len(inbox[s])].via = "list"
    /\ a \in clients
    /\ a \in DOMAIN usernames
    /\ Received(a, "list") = << >>

\* the names separated by a comma and a space
RECURSIVE CommaSeparated(_)
CommaSeparated(names) ==
  IF Len(names) = 0 THEN ""
  ELSE IF Len(names) = 1 THEN names[1]
  ELSE names[1] \o ", " \o CommaSeparated(Tail(names))

\* C17: send_user_list collects the name of every entry of the usernames map
\* as it stands at the request, each once, and the body of its reply is
\* "No users online." exactly when it collected none and otherwise
\* "Online users: " followed by the names joined by ", ".
C17_ListBody ==
  [][\A s \in Ids :
       /\ ListTaken(s) =>
            /\ Listed(users'[s]) = DOMAIN usernames
            /\ Len(users'[s].ids) = Cardinality(DOMAIN usernames)
            /\ users'[s].names =
                 [i \in 1..Len(users'[s].ids) |-> usernames[users'[s].ids[i]]]
       /\ UserListWrite(s) =>
            inbox'[s][Len(inbox'[s])].env.content =
              IF Len(users[s].names) = 0 THEN "No users online."
              ELSE "Online users: " \o CommaSeparated(users[s].names)]_vars

\* C17: a requester received the reply that names the two registered sessions.
C17_TwoNamesListed ==
  \E s \in Ids : \E i \in 1..Len(inbox[s]) :
    /\ inbox[s][i].via = "list"
    /\ inbox[s][i].env.content \in
         {"Online users: alice, " \o LongName, "Online users: " \o LongName \o ", alice"}

\* C18: in the Mutex-based server a failed write to one recipient during
\* broadcast_message stays within that session: it terminates no handler
\* thread, leaves every mutex usable by the other handlers, and leaves the
\* accept loop of main running.
C18_WriteFailureRecoverable ==
  /\ \A s \in Ids : result[s] # "panic"
  /\ poisoned = {}
  /\ Main \notin panicked

\* the history entries the handshakes appended
JoinsIn(h) == {i \in 1..Len(h) : appended_by[i].site = "join"}

\* C19: a line of the message loop that is empty, blank or no ChatMessage is
\* ignored: nothing is broadcast, the history and both registry maps stay as
\* they are, nothing is written to any connection, and the session stays in
\* its message loop.
C19_UnparseableIgnored ==
  [][\A s \in Ids :
       ReadUnparseable(s) =>
         /\ pc'[s] = "read"
         /\ result'[s] = "running"
         /\ chat_history' = chat_history
         /\ clients' = clients
         /\ usernames' = usernames
         /\ inbox' = inbox
         /\ message' = message
         /\ todo' = todo]_vars

\* C19: every line of the run was read and none left a trace: a registered,
\* named session stands in its loop, the history holds join notices only and
\* no connection received a /list reply.
C19_LinesLeftNoTrace ==
  \E s \in Ids :
    /\ pc[s] = "read"
    /\ ninputs = scenario.inputs
    /\ s \in clients
    /\ s \in DOMAIN usernames
    /\ JoinsIn(chat_history) = 1..Len(chat_history)
    /\ \A a \in Ids : Received(a, "list") = << >>

\* C20: the history is append-only: a step leaves it as it is or adds exactly
\* one envelope at its end, the one a thread passed to broadcast_message, and
\* that thread moves on from its push; nothing else changes the history.
C20_AppendOnly ==
  [][\/ chat_history' = chat_history
     \/ \E s \in Ids :
          /\ pc[s] = "bm_append"
          /\ pc'[s] = "bm_lock"
          /\ chat_history' = Append(chat_history, message[s])
          /\ \A t \in Ids \ {s} : pc'[t] = pc[t]]_vars

\* C20: the history holds a join notice, a relayed Message and a departure
\* notice, appended by three calls of broadcast_message.
C20_ThreeKindsAppended ==
  /\ Len(chat_history) >= 3
  /\ \E i, j, k \in 1..Len(chat_history) :
       /\ i < j /\ j < k
       /\ appended_by[i].site = "join"
       /\ appended_by[j].site = "message"
       /\ appended_by[k].site = "disconnect"

\* handle_client_disconnect has run to its end for s at least once
Quitted(s) ==
  /\ Received(s, "ack") # << >>
  /\ pc[s] \notin {"dc_clients", "dc_usernames"}

\* C21: handling /quit takes the session out of its message loop: once
\* handle_client_disconnect has run for a session, its handler handles no
\* further line, so it starts no later broadcast, history append or /list
\* reply.
C21_QuitEndsSession ==
  \A s \in Ids :
    Quitted(s) =>
      pc[s] \notin {"bm_append", "bm_lock", "bm_write", "bm_prune",
                    "list", "list_write", "dc_ack"}

\* C22, as stated: a parsed line that is neither /list nor /quit, Join and
\* Leave included, is wrapped as a Message under the session's name and handed
\* to broadcast_message; none is dropped or treated as a departure.
C22_AnyKindRelayed ==
  [][\A s \in Ids :
       (HandleUnhandled(s) \/ (HandleQuitOrLeave(s) /\ msg_type'[s] = "leave")) =>
         /\ pc'[s] = "bm_append"
         /\ ret'[s] = "message"
         /\ message'[s].message_type = "message"
         /\ message'[s].username = username[s]]_vars

\* C22, amended: the kind the line declares decides the arm: a Message is
\* rebuilt under the session's name and handed to broadcast_message; a Leave
\* is handled like /quit, as a departure whose notice keeps the kind received;
\* a Join is logged and dropped with nothing changed.
C22_KindDecidesArm ==
  [][\A s \in Ids :
       /\ HandleMessage(s) =>
            /\ pc'[s] = "bm_append"
            /\ ret'[s] = "message"
            /\ message'[s].message_type = "message"
            /\ message'[s].username = username[s]
            /\ message'[s].content \in Contents
       /\ HandleQuitOrLeave(s) =>
            /\ pc'[s] = "bm_append"
            /\ ret'[s] = "disconnect"
            /\ msg_type'[s] \in {"quit", "leave"}
            /\ message'[s] =
                 ChatMessage(msg_type'[s], username[s],
                             username[s][1] \o " has left the chat")
       /\ HandleUnhandled(s) =>
            /\ pc' = pc
            /\ message' = message
            /\ ret' = ret
            /\ chat_history' = chat_history
            /\ inbox' = inbox
            /\ clients' = clients
            /\ usernames' = usernames]_vars

\* C22: a line of kind Leave was handled as a departure: its notice, of kind
\* Leave, stands in the history and the session is on its way out.
C22_LeaveLineDeparts ==
  \E s \in Ids :
    /\ pc[s] = "bm_lock"
    /\ ret[s] = "disconnect"
    /\ msg_type[s] = "leave"
    /\ chat_history[CurIdx(s)].message_type = "leave"

\* the positions of the handshake before broadcast_join_message
BeforeJoin == {"register", "get_username", "send_history", "replay", "set_name"}

\* C23, as stated: the name is recorded in the usernames map before the
\* replay, so during its replay the session is already in the usernames map.
C23_NameBeforeReplay ==
  \A s \in Ids : pc[s] = "replay" => s \in DOMAIN usernames

\* C23, amended: the history is replayed first, then the name is recorded in
\* the usernames map, then the Join is appended and fanned out: up to the end
\* of its replay a session has no entry in the usernames map and no Join in the
\* history; when its Join is about to be appended its entry stands; and no
\* replay contains the session's own Join.
C23_ReplayNameJoin ==
  \A s \in Ids :
    /\ pc[s] \in BeforeJoin => (s \notin DOMAIN usernames /\ ~Joined(s))
    /\ (pc[s] = "bm_append" /\ ret[s] = "join") =>
         /\ s \in DOMAIN usernames
         /\ usernames[s] = username[s][1]
         /\ ~Joined(s)
    /\ Joined(s) => pc[s] \notin BeforeJoin
    /\ \A i \in 1..Len(inbox[s]) :
         inbox[s][i].via = "replay" =>
           appended_by[inbox[s][i].idx] # [id |-> s, site |-> "join"]

\* C23: a /list snapshot taken by another session while a named session is
\* in its replay does not hold that session.
C23_ListDuringReplay ==
  \E s, t \in Ids :
    /\ pc[s] = "replay"
    /\ hist_idx[s] <= Len(chat_history)
    /\ username[s] # None
    /\ s \in clients
    /\ pc[t] = "list_write"
    /\ t \in Listed(users[t])
    /\ s \notin Listed(users[t])

\* the locks thread s holds, and the positions whose next step takes one
HoldsClients(s) == s \in clients_lock.readers \/ clients_lock.writer = s
HoldsHistory(s) == s \in history_lock.readers \/ history_lock.writer = s
AcquiresClients(s) == pc[s] \in {"register", "bm_lock", "bm_prune", "dc_clients", "cleanup"}
AcquiresHistory(s) == pc[s] \in {"send_history", "bm_append"}

\* C25: no thread holds the clients lock while it holds or goes on to take the
\* history lock, nor the history lock while it goes on to take the clients
\* lock: a thread in its fan-out has released the history lock, and a thread
\* in its replay holds the history read lock and nothing else.
C25_ClientsAndHistoryNeverNested ==
  \A s \in Ids :
    /\ ~(HoldsClients(s) /\ (HoldsHistory(s) \/ AcquiresHistory(s)))
    /\ ~(HoldsHistory(s) /\ AcquiresClients(s))
    /\ pc[s] \in {"bm_lock", "bm_write", "bm_prune"} => ~HoldsHistory(s)
    /\ pc[s] = "replay" => (s \in history_lock.readers /\ ~HoldsClients(s))
    /\ pc[s] = "bm_write" => s \in clients_lock.readers

\* C25: one thread writes to its recipients under the clients read lock while
\* another replays under the history read lock.
C25_BothLocksInUse ==
  \E s, t \in Ids :
    /\ pc[s] = "bm_write"
    /\ todo[s] # {}
    /\ s \in clients_lock.readers
    /\ pc[t] = "replay"
    /\ t \in history_lock.readers

\* C26: on every connection the envelopes delivered by live fan-out arrive in
\* the order of their positions in the history log.
C26_FanoutFollowsHistory ==
  \A r \in Ids : \A i, j \in DOMAIN inbox[r] :
    (/\ i < j
     /\ inbox[r][i].via = "fanout"
     /\ inbox[r][j].via = "fanout")
      => inbox[r][i].idx < inbox[r][j].idx

\* C27: no connection receives the envelope at one history position twice,
\* neither twice by the same path nor once in its replay and once by fan-out.
C27_DeliveredAtMostOnce ==
  \A s \in Ids : \A i, j \in DOMAIN inbox[s] :
    (/\ i < j
     /\ inbox[s][i].via \in {"replay", "fanout"}
     /\ inbox[s][j].via \in {"replay", "fanout"})
      => inbox[s][i].idx # inbox[s][j].idx

\* the positions of handle_client_disconnect and cleanup_client between their
\* two removals
Teardown == {"dc_usernames", "cleanup_usernames"}

\* C28: outside a handler's own teardown every identity with a name in the
\* usernames map has a writer in the clients map, and a handler that has
\* returned has left no entry in either map.
C28_RegistryConsistent ==
  \A s \in Ids :
    /\ (s \in DOMAIN usernames /\ pc[s] \notin Teardown) => s \in clients
    /\ pc[s] = "done" => (s \notin clients /\ s \notin DOMAIN usernames)

\* C24: once the server has read everything the client wrote, it has
\* dispatched every line the client wrote, each once and in the order written,
\* however the reads cut the bytes.
C24_EveryLineDispatchedOnce ==
  (wire = << >> /\ reader # "get_username") => dispatched = sent

\* the lock the next step of thread s takes and how, if it takes one
Wanted(s) ==
  CASE pc[s] = "register" /\ s \in scenario.sessions
         -> [lock |-> "clients", write |-> TRUE]
    [] pc[s] \in {"bm_prune", "dc_clients", "cleanup"}
         -> [lock |-> "clients", write |-> TRUE]
    [] pc[s] = "bm_lock" -> [lock |-> "clients", write |-> FALSE]
    [] pc[s] = "bm_append" -> [lock |-> "history", write |-> TRUE]
    [] pc[s] = "send_history" -> [lock |-> "history", write |-> FALSE]
    [] pc[s] \in {"set_name", "dc_usernames", "cleanup_usernames"}
         -> [lock |-> "usernames", write |-> TRUE]
    [] pc[s] = "list" -> [lock |-> "usernames", write |-> FALSE]
    [] OTHER -> [lock |-> "none", write |-> FALSE]

LockNamed(n) ==
  CASE n = "clients" -> clients_lock
    [] n = "usernames" -> usernames_lock
    [] n = "history" -> history_lock
    [] OTHER -> FreeLock

\* the threads that hold lock l
Holders(l) == l.readers \cup (IF l.writer = 0 THEN {} ELSE {l.writer})

\* thread s stands before an acquisition that cannot succeed now
Blocked(s) ==
  IF Wanted(s).write
    THEN ~CanWrite(LockNamed(Wanted(s).lock))
    ELSE ~CanRead(LockNamed(Wanted(s).lock))

\* no set of threads is blocked on locks that only its own members hold
NoLockCycle ==
  \A D \in SUBSET Ids \ {{}} :
    \E s \in D : ~Blocked(s) \/ ~(Holders(LockNamed(Wanted(s).lock)) \subseteq D)

\* C29: no set of handler threads blocks one another for ever on the clients,
\* usernames and history locks; a thread that holds the usernames lock holds it
\* for one step only, so the clients-then-usernames nesting of
\* handle_client_disconnect is never met in the opposite order; and every
\* accepted handler whose peer has closed the connection returns.
C29_DeadlockFree ==
  /\ [](NoLockCycle /\ usernames_lock = FreeLock)
  /\ \A s \in 1..MaxLive : (conn[s] = "closed") ~> (pc[s] = "done")

\* C29: a thread in the nested section of handle_client_disconnect holds the
\* clients write lock while another thread waits for the clients lock.
C29_WaitsForNestedHolder ==
  \E s, t \in Ids :
    /\ pc[s] = "dc_usernames"
    /\ clients_lock.writer = s
    /\ t # s
    /\ Wanted(t).lock = "clients"
    /\ Blocked(t)

====
